---- MODULE Spec2Model ----
(***************************************************************************)
(* overrun: a command is built from a template by two formatting passes    *)
(* (overrun.py, format_cmd): the first pass resolves every {field} and     *)
(* rewrites it to a positional reference while recording the value, the    *)
(* second pass renders the recorded values, shell-quoted in shell mode and *)
(* per shlex.split token in vector mode.  The result is wrapped in a       *)
(* CmdObject whose executions return CompletedProcess wrappers.            *)
(*                                                                         *)
(* Text is a sequence of one-character strings.  Python values are tagged  *)
(* records.                                                                *)
(***************************************************************************)
EXTENDS Naturals, Sequences, FiniteSets

\* ------------------------------------------------------------------ bounds

MaxSegs == 3

MaxCalls == 2

\* ------------------------------------------------------------ Python values

PyNone == [t |-> "none", s |-> <<>>, n |-> 0, v |-> <<>>]

PyStrVal(cs) == [t |-> "str", s |-> cs, n |-> 0, v |-> <<>>]

PyInt(k) == [t |-> "int", s |-> <<>>, n |-> k, v |-> <<>>]

PyList(vs) == [t |-> "list", s |-> <<>>, n |-> 0, v |-> vs]

Digits == <<"0", "1", "2", "3", "4", "5", "6", "7", "8", "9">>

DigitSet == {Digits[i] : i \in 1..10}

DigitVal(c) == (CHOOSE i \in 1..10 : Digits[i] = c) - 1

RECURSIVE IntToStr(_)
IntToStr(k) ==
  IF k < 10 THEN <<Digits[k + 1]>>
  ELSE IntToStr(k \div 10) \o <<Digits[(k % 10) + 1]>>

RECURSIVE StrToInt(_)
StrToInt(cs) ==
  IF cs = <<>> THEN 0
  ELSE 10 * StrToInt(SubSeq(cs, 1, Len(cs) - 1)) + DigitVal(cs[Len(cs)])

IsDigits(cs) == cs # <<>> /\ \A i \in 1..Len(cs) : cs[i] \in DigitSet

RECURSIVE Join(_, _)
Join(parts, sep) ==
  IF parts = <<>> THEN <<>>
  ELSE IF Len(parts) = 1 THEN parts[1]
  ELSE parts[1] \o sep \o Join(Tail(parts), sep)

\* The body of the repr of a text inside the quote character q.
RECURSIVE ReprChars(_, _)
ReprChars(cs, q) ==
  IF cs = <<>> THEN <<>>
  ELSE (CASE cs[1] = "\\" -> <<"\\", "\\">>
          [] cs[1] = q -> <<"\\", q>>
          [] cs[1] = "\n" -> <<"\\", "n">>
          [] cs[1] = "\t" -> <<"\\", "t">>
          [] cs[1] = "\r" -> <<"\\", "r">>
          [] OTHER -> <<cs[1]>>)
       \o ReprChars(Tail(cs), q)

\* repr of a text: in single quotes, unless it holds one and no double quote.
StrRepr(cs) ==
  LET q == IF (\E i \in 1..Len(cs) : cs[i] = "'") /\ (\A i \in 1..Len(cs) : cs[i] # "\"")
             THEN "\"" ELSE "'"
  IN <<q>> \o ReprChars(cs, q) \o <<q>>

\* repr(value); the repr of a list is that of its elements between brackets.
RECURSIVE PyRepr(_)
PyRepr(value) ==
  CASE value.t = "none" -> <<"N", "o", "n", "e">>
    [] value.t = "str" -> StrRepr(value.s)
    [] value.t = "int" -> IntToStr(value.n)
    [] OTHER -> <<"[">> \o Join([i \in 1..Len(value.v) |-> PyRepr(value.v[i])], <<",", " ">>)
                \o <<"]">>

\* str(value): a text is itself, every other value its repr.
PyStr(value) == IF value.t = "str" THEN value.s ELSE PyRepr(value)

\* len(value): -1 stands for the TypeError of a value without a length.
PyLen(value) ==
  CASE value.t = "list" -> Len(value.v)
    [] value.t = "str" -> Len(value.s)
    [] OTHER -> 0 - 1

\* value[i], on a value with a length.
PyItem(value, i) ==
  IF value.t = "list" THEN value.v[i + 1] ELSE PyStrVal(<<value.s[i + 1]>>)

\* ---------------------------------------------------------------- shlex

\* shlex.quote leaves a text of these characters alone: [\w@%+=:,./-].
SafeChars ==
  DigitSet \cup {"p", "x", "y", "l", "r", "t", "N", "o", "n", "e", "_",
                 "@", "%", "+", "=", ":", ",", ".", "/", "-"}

RECURSIVE ReplaceQuote(_)
ReplaceQuote(cs) ==
  IF cs = <<>> THEN <<>>
  ELSE (IF cs[1] = "'" THEN <<"'", "\"", "'", "\"", "'">> ELSE <<cs[1]>>)
       \o ReplaceQuote(Tail(cs))

\* A quote that wraps the text without escaping the quotes inside it.
ShlexQuoteBare(cs) ==
  IF cs = <<>> THEN <<"'", "'">>
  ELSE IF \A i \in 1..Len(cs) : cs[i] \in SafeChars THEN cs
  ELSE <<"'">> \o cs \o <<"'">>

ShlexQuote(cs) ==
  IF cs = <<>> THEN <<"'", "'">>
  ELSE IF \A i \in 1..Len(cs) : cs[i] \in SafeChars THEN cs
  ELSE <<"'">> \o ReplaceQuote(cs) \o <<"'">>

Whitespace == {" ", "\n", "\t", "\r"}

\* Of the shell's special characters, the one still expanded inside double quotes.
DqMeta == {"$"}

\* The POSIX word reader of shlex (whitespace_split, no comment characters).
\* st is the reader's state: "ws" between words, "word", "sq" and "dq" inside
\* quotes, "esc" after a backslash (est is the state it returns to).  metas are
\* the characters that are not plain text outside single quotes: none for
\* shlex.split, the shell's expansion characters for the shell itself.
\* The end of the run of characters from position i that are not in stops: the
\* position of the first one that is, or one past the end of the text.
RunEnd(cs, i, stops) ==
  CHOOSE j \in i..(Len(cs) + 1) :
    /\ j = Len(cs) + 1 \/ cs[j] \in stops
    /\ \A k \in i..(j - 1) : cs[k] \notin stops

RECURSIVE ReadWords(_, _, _, _, _, _, _, _)
ReadWords(cs, i, st, est, tok, quoted, out, metas) ==
  IF i > Len(cs) THEN
    IF st \in {"sq", "dq", "esc"} THEN [err |-> "ValueError", words |-> <<>>]
    ELSE [err |-> "none",
          words |-> IF st = "word" /\ (tok # <<>> \/ quoted)
                    THEN Append(out, tok) ELSE out]
  ELSE
    LET c == cs[i] IN
    CASE st = "ws" ->
           IF c \in Whitespace
             THEN ReadWords(cs, i + 1, "ws", est, <<>>, FALSE, out, metas)
           ELSE IF c = "\\"
             THEN ReadWords(cs, i + 1, "esc", "word", <<>>, FALSE, out, metas)
           ELSE IF c = "'"
             THEN ReadWords(cs, i + 1, "sq", est, <<>>, TRUE, out, metas)
           ELSE IF c = "\""
             THEN ReadWords(cs, i + 1, "dq", est, <<>>, TRUE, out, metas)
           ELSE IF c \in metas THEN [err |-> "meta", words |-> <<>>]
           ELSE ReadWords(cs, i, "word", est, <<>>, FALSE, out, metas)
      [] st = "word" ->
           IF c \in Whitespace
             THEN ReadWords(cs, i + 1, "ws", est, <<>>, FALSE,
                            IF tok # <<>> \/ quoted THEN Append(out, tok) ELSE out,
                            metas)
           ELSE IF c = "\\"
             THEN ReadWords(cs, i + 1, "esc", "word", tok, quoted, out, metas)
           ELSE IF c = "'"
             THEN ReadWords(cs, i + 1, "sq", est, tok, TRUE, out, metas)
           ELSE IF c = "\""
             THEN ReadWords(cs, i + 1, "dq", est, tok, TRUE, out, metas)
           ELSE IF c \in metas THEN [err |-> "meta", words |-> <<>>]
           ELSE LET j == RunEnd(cs, i, Whitespace \cup {"\\", "'", "\""} \cup metas)
                IN ReadWords(cs, j, "word", est, tok \o SubSeq(cs, i, j - 1),
                             quoted, out, metas)
      [] st = "sq" ->
           IF c = "'"
             THEN ReadWords(cs, i + 1, "word", est, tok, TRUE, out, metas)
           ELSE LET j == RunEnd(cs, i, {"'"})
                IN ReadWords(cs, j, "sq", est, tok \o SubSeq(cs, i, j - 1),
                             TRUE, out, metas)
      [] st = "dq" ->
           IF c = "\""
             THEN ReadWords(cs, i + 1, "word", est, tok, TRUE, out, metas)
           ELSE IF c = "\\"
             THEN ReadWords(cs, i + 1, "esc", "dq", tok, TRUE, out, metas)
           ELSE IF c \in metas \cap DqMeta THEN [err |-> "meta", words |-> <<>>]
           ELSE LET j == RunEnd(cs, i, {"\"", "\\"} \cup (metas \cap DqMeta))
                IN ReadWords(cs, j, "dq", est, tok \o SubSeq(cs, i, j - 1),
                             TRUE, out, metas)
      [] OTHER ->
           \* after a backslash: inside double quotes it is kept unless it
           \* escapes a backslash or the quote
           ReadWords(cs, i + 1, est, est,
                     IF est = "dq" /\ c # "\\" /\ c # "\""
                       THEN tok \o <<"\\", c>> ELSE Append(tok, c),
                     quoted, out, metas)

\* shlex.split(text): [err, words].
ShlexSplit(cs) == ReadWords(cs, 1, "ws", "word", <<>>, FALSE, <<>>, {})

\* The characters a POSIX shell expands or acts on outside single quotes.
ShellMeta == {"$", ";", "|", "&", "<", ">", "#", "~"}

\* The argument words a POSIX shell makes of a command line that uses none of
\* its operators or expansions; "meta" when it does use one.
ShellWords(cs) == ReadWords(cs, 1, "ws", "word", <<>>, FALSE, <<>>, ShellMeta)

\* ------------------------------------------------------- string.Formatter

\* The state one format() call threads through its fields: the output text,
\* the first pass's recorded values (_SimpleFormatter.args), the evaluator's
\* call log and the count of side effects of the expression "c", the automatic
\* field numbering (auto, manual), and the exception raised, if any.
NewState(args, log, cnt) ==
  [out |-> <<>>, args |-> args, log |-> log, cnt |-> cnt,
   auto |-> 0, manual |-> FALSE, err |-> "none"]

Fail(st, e) == [st EXCEPT !.err = e]

Emit(st, cs) == [st EXCEPT !.out = st.out \o cs]

\* The end of a field's name, from position i: the position of the '}' or ':'
\* that ends it; 0 when the text ends first, and Len(fmt) + 1 for a '{' inside
\* the name.  A '[' skips to its ']'.
RECURSIVE ScanName(_, _, _)
ScanName(fmt, i, inBracket) ==
  IF i > Len(fmt) THEN 0
  ELSE IF inBracket THEN ScanName(fmt, i + 1, fmt[i] # "]")
  ELSE IF fmt[i] = "{" THEN Len(fmt) + 1
  ELSE IF fmt[i] = "[" THEN ScanName(fmt, i + 1, TRUE)
  ELSE IF fmt[i] \in {"}", ":"} THEN i
  ELSE ScanName(fmt, i + 1, FALSE)

\* The position of the '}' that closes a format spec starting at i, nested
\* braces counted; 0 when there is none.
RECURSIVE ScanSpec(_, _, _)
ScanSpec(fmt, i, count) ==
  IF i > Len(fmt) THEN 0
  ELSE IF fmt[i] = "{" THEN ScanSpec(fmt, i + 1, count + 1)
  ELSE IF fmt[i] = "}" THEN (IF count = 1 THEN i ELSE ScanSpec(fmt, i + 1, count - 1))
  ELSE ScanSpec(fmt, i + 1, count)

\* The names the caller's scope binds, and the expression with a side effect.
SideEffectExpr == "c"

\* An evaluator that remembers: a name it has evaluated is not evaluated again.
EvalMemo(name, scope, st) ==
  LET seen == \E i \in 1..Len(st.log) : st.log[i] = name
      st1 == IF seen THEN st ELSE [st EXCEPT !.log = Append(st.log, name)]
  IN
  IF name = <<SideEffectExpr>>
    THEN (IF seen THEN [val |-> PyInt(st.cnt), st |-> st1]
          ELSE [val |-> PyInt(st.cnt + 1), st |-> [st1 EXCEPT !.cnt = st.cnt + 1]])
  ELSE IF IsDigits(name) THEN [val |-> PyInt(StrToInt(name)), st |-> st1]
  ELSE IF Len(name) = 1 /\ name[1] \in DOMAIN scope
    THEN [val |-> scope[name[1]], st |-> st1]
  ELSE [val |-> PyNone, st |-> Fail(st1, "NameError")]

\* An evaluator for which a name the scope does not bind is None.
EvalLenient(name, scope, st) ==
  LET st1 == [st EXCEPT !.log = Append(st.log, name)] IN
  IF name = <<SideEffectExpr>>
    THEN [val |-> PyInt(st.cnt + 1), st |-> [st1 EXCEPT !.cnt = st.cnt + 1]]
  ELSE IF IsDigits(name) THEN [val |-> PyInt(StrToInt(name)), st |-> st1]
  ELSE IF Len(name) = 1 /\ name[1] \in DOMAIN scope
    THEN [val |-> scope[name[1]], st |-> st1]
  ELSE [val |-> PyNone, st |-> st1]

\* CallerEval._eval: the expression evaluated in the caller's scope.  Every call
\* is logged.  "c" stands for an expression with a side effect (it counts its
\* own evaluations and returns the count); a number is a literal; any other name
\* is looked up, and a name the scope does not bind is a NameError.
Eval(name, scope, st) ==
  LET st1 == [st EXCEPT !.log = Append(st.log, name)] IN
  IF name = <<SideEffectExpr>>
    THEN [val |-> PyInt(st.cnt + 1), st |-> [st1 EXCEPT !.cnt = st.cnt + 1]]
  ELSE IF IsDigits(name) THEN [val |-> PyInt(StrToInt(name)), st |-> st1]
  ELSE IF Len(name) = 1 /\ name[1] \in DOMAIN scope
    THEN [val |-> scope[name[1]], st |-> st1]
  ELSE [val |-> PyNone, st |-> Fail(st1, "NameError")]

\* The position of the first '[' of a field name, or 0.
RECURSIVE BracketAt(_, _)
BracketAt(name, i) ==
  IF i > Len(name) THEN 0
  ELSE IF name[i] = "[" THEN i
  ELSE BracketAt(name, i + 1)

\* string.Formatter.get_field: the name's first part is an index into the
\* positional values or a key of the keyword values, and an [i] after it indexes
\* the value found.
GetFieldDefault(name, posargs, kwargs, st) ==
  LET b == BracketAt(name, 1)
      first == IF b = 0 THEN name ELSE SubSeq(name, 1, b - 1)
      idx == IF b = 0 THEN <<>> ELSE SubSeq(name, b + 1, Len(name) - 1)
      base ==
        IF IsDigits(first) THEN
          IF StrToInt(first) < Len(posargs)
            THEN [val |-> posargs[StrToInt(first) + 1], err |-> "none"]
            ELSE [val |-> PyNone, err |-> "IndexError"]
        ELSE IF Len(first) = 1 /\ first[1] \in DOMAIN kwargs
          THEN [val |-> kwargs[first[1]], err |-> "none"]
        ELSE [val |-> PyNone, err |-> "KeyError"]
  IN
  IF base.err # "none" THEN [val |-> PyNone, st |-> Fail(st, base.err)]
  ELSE IF b = 0 THEN [val |-> base.val, st |-> st]
  ELSE IF ~IsDigits(idx) \/ PyLen(base.val) < 0
    THEN [val |-> PyNone, st |-> Fail(st, "TypeError")]
  ELSE IF StrToInt(idx) >= PyLen(base.val)
    THEN [val |-> PyNone, st |-> Fail(st, "IndexError")]
  ELSE [val |-> PyItem(base.val, StrToInt(idx)), st |-> st]

\* The keyword values format_cmd is called with: the scope's bindings, and the
\* value of "c" computed once by the caller.
Kwargs(scope) ==
  [x \in DOMAIN scope \cup {SideEffectExpr} |->
     IF x = SideEffectExpr THEN PyInt(1) ELSE scope[x]]

NoKwargs == [x \in {} |-> PyNone]

\* get_field of the pass P: the evaluator for cmd's first pass
\* (_EvalFormatter), the keyword values for format_cmd's, the recorded values
\* for the second pass.
GetField(name, P, st) ==
  IF P.kind = "record" /\ P.api = "cmd" THEN Eval(name, P.scope, st)
  ELSE IF P.kind = "record" THEN GetFieldDefault(name, <<>>, Kwargs(P.scope), st)
  ELSE GetFieldDefault(name, P.args, NoKwargs, st)

\* _SimpleFormatter.format_field: the value is recorded and the field is
\* rewritten to a reference to its index, one reference per element under the
\* list directive.
IndexRef(index, i) == <<"{">> \o IntToStr(index) \o <<"[">> \o IntToStr(i) \o <<"]", "}">>

\* A list directive whose references are joined without the space between.
RecordFieldJoined(value, spec, st) ==
  LET index == Len(st.args)
      st1 == [st EXCEPT !.args = Append(st.args, value)]
  IN
  IF spec = <<"l">> THEN
    IF PyLen(value) < 0 THEN Fail(st1, "TypeError")
    ELSE Emit(st1, Join([i \in 1..PyLen(value) |-> IndexRef(index, i - 1)], <<>>))
  ELSE Emit(st1, <<"{">> \o IntToStr(index) \o <<":">> \o spec \o <<"}">>)

RecordField(value, spec, st) ==
  LET index == Len(st.args)
      st1 == [st EXCEPT !.args = Append(st.args, value)]
  IN
  IF spec = <<"l">> THEN
    IF PyLen(value) < 0 THEN Fail(st1, "TypeError")
    ELSE Emit(st1, Join([i \in 1..PyLen(value) |-> IndexRef(index, i - 1)], <<" ">>))
  ELSE Emit(st1, <<"{">> \o IntToStr(index) \o <<":">> \o spec \o <<"}">>)

\* A quoting pass without the test for None.
QuoteFieldNoneAsText(value, spec, shell, st) ==
  LET str_value == PyStr(value) IN
  IF shell THEN
    IF spec = <<"r">> THEN Emit(st, str_value)
    ELSE IF spec = <<"l">> THEN
      IF PyLen(value) < 0 THEN Fail(st, "TypeError")
      ELSE Emit(st, Join([i \in 1..PyLen(value) |->
                            ShlexQuote(PyStr(PyItem(value, i - 1)))], <<" ">>))
    ELSE Emit(st, ShlexQuote(str_value))
  ELSE Emit(st, str_value)

\* A quoting pass that takes every directive it does not know for raw.
QuoteFieldUnknownRaw(value, spec, shell, st) ==
  LET str_value == IF value.t = "none" THEN <<>> ELSE PyStr(value) IN
  IF shell THEN
    IF spec = <<"l">> THEN
      IF PyLen(value) < 0 THEN Fail(st, "TypeError")
      ELSE Emit(st, Join([i \in 1..PyLen(value) |->
                            ShlexQuote(PyStr(PyItem(value, i - 1)))], <<" ">>))
    ELSE IF spec = <<>> THEN Emit(st, ShlexQuote(str_value))
    ELSE Emit(st, str_value)
  ELSE Emit(st, str_value)

\* _ShellQuoteFormatter.format_field.
QuoteField(value, spec, shell, st) ==
  LET str_value == IF value.t = "none" THEN <<>> ELSE PyStr(value) IN
  IF shell THEN
    IF spec = <<"r">> THEN Emit(st, str_value)
    ELSE IF spec = <<"l">> THEN
      IF PyLen(value) < 0 THEN Fail(st, "TypeError")
      ELSE Emit(st, Join([i \in 1..PyLen(value) |->
                            ShlexQuote(PyStr(PyItem(value, i - 1)))], <<" ">>))
    ELSE Emit(st, ShlexQuote(str_value))
  ELSE Emit(st, str_value)

FormatField(value, spec, P, st) ==
  IF P.kind = "record" THEN RecordField(value, spec, st)
  ELSE QuoteField(value, spec, P.shell, st)

HasBrace(cs) == \E i \in 1..Len(cs) : cs[i] \in {"{", "}"}

\* The automatic numbering of _vformat: an empty name takes the next index, and
\* numbered and empty names do not mix within one format() call.
Numbered(name, st) ==
  IF name = <<>> THEN
    IF st.manual THEN [name |-> name, st |-> Fail(st, "ValueError")]
    ELSE [name |-> IntToStr(st.auto), st |-> [st EXCEPT !.auto = st.auto + 1]]
  ELSE IF IsDigits(name) THEN
    IF st.auto > 0 /\ ~st.manual THEN [name |-> name, st |-> Fail(st, "ValueError")]
    ELSE [name |-> name, st |-> [st EXCEPT !.manual = TRUE]]
  ELSE [name |-> name, st |-> st]

\* string.Formatter._vformat from position i of fmt, with the markup reader of
\* str.format: doubled braces are literal braces, a single '{' opens a field
\* name[:spec], whose spec is itself formatted one level deeper (two levels at
\* most).  Conversions (!r) are not modelled: no text of the model holds a '!'.
\* One field is handled in steps: FormatOne numbers the name, WithNumber gets
\* the value, WithValue formats the spec (SpecText), WithSpec formats the field
\* and appends it to the output so far, out0.
RECURSIVE Vformat(_, _, _, _, _)
RECURSIVE FormatOne(_, _, _, _, _)
RECURSIVE WithNumber(_, _, _, _, _)
RECURSIVE WithValue(_, _, _, _, _)
RECURSIVE SpecText(_, _, _, _)

WithSpec(value, sp, P, out0) ==
  IF sp.err # "none" THEN sp
  ELSE FormatField(value, sp.out, P, [sp EXCEPT !.out = out0])

SpecText(spec, depth, P, st) ==
  IF depth < 1 THEN Fail(st, "ValueError")
  ELSE IF HasBrace(spec) THEN Vformat(spec, 1, depth - 1, P, [st EXCEPT !.out = <<>>])
  ELSE [st EXCEPT !.out = spec]

WithValue(got, spec, depth, P, out0) ==
  IF got.st.err # "none" THEN got.st
  ELSE WithSpec(got.val, SpecText(spec, depth, P, got.st), P, out0)

WithNumber(nb, spec, depth, P, out0) ==
  IF nb.st.err # "none" THEN nb.st
  ELSE WithValue(GetField(nb.name, P, nb.st), spec, depth, P, out0)

FormatOne(name, spec, depth, P, st) ==
  WithNumber(Numbered(name, st), spec, depth, P, st.out)

Vformat(fmt, i, depth, P, st) ==
  IF st.err # "none" \/ i > Len(fmt) THEN st
  ELSE IF fmt[i] = "}" THEN
    IF i < Len(fmt) /\ fmt[i + 1] = "}"
      THEN Vformat(fmt, i + 2, depth, P, Emit(st, <<"}">>))
      ELSE Fail(st, "ValueError")
  ELSE IF fmt[i] # "{" THEN Vformat(fmt, i + 1, depth, P, Emit(st, <<fmt[i]>>))
  ELSE IF i = Len(fmt) THEN Fail(st, "ValueError")
  ELSE IF fmt[i + 1] = "{" THEN Vformat(fmt, i + 2, depth, P, Emit(st, <<"{">>))
  ELSE
    LET e == ScanName(fmt, i + 1, FALSE)
        z == IF e = 0 \/ e > Len(fmt) THEN 0
             ELSE IF fmt[e] = "}" THEN e
             ELSE ScanSpec(fmt, e + 1, 1)
    IN
    IF z = 0 THEN Fail(st, "ValueError")
    ELSE Vformat(fmt, z + 1, depth, P,
                 FormatOne(SubSeq(fmt, i + 1, e - 1), SubSeq(fmt, e + 1, z - 1),
                           depth, P, st))

\* Formatter.format(fmt, ...) under pass P, from state st.
Format(fmt, P, st) == Vformat(fmt, 1, 2, P, st)

\* ------------------------------------------------------------ the inputs

\* A template is written as a sequence of segments: a literal character, a
\* doubled brace, or a field {name} / {name:spec}.
Lit(c) == [k |-> "lit", c |-> c, name |-> "", spec |-> ""]

LBrace == [k |-> "lbrace", c |-> "", name |-> "", spec |-> ""]

RBrace == [k |-> "rbrace", c |-> "", name |-> "", spec |-> ""]

Field(name, spec) == [k |-> "field", c |-> "", name |-> name, spec |-> spec]

SegText(g) ==
  CASE g.k = "lit" -> <<g.c>>
    [] g.k = "lbrace" -> <<"{", "{">>
    [] g.k = "rbrace" -> <<"}", "}">>
    [] OTHER -> <<"{", g.name>> \o (IF g.spec = "" THEN <<>> ELSE <<":", g.spec>>) \o <<"}">>

RECURSIVE Flatten(_)
Flatten(gs) == IF gs = <<>> THEN <<>> ELSE SegText(gs[1]) \o Flatten(Tail(gs))

\* Fields: a is a scalar, n is None, s is a sequence, u is bound nowhere, c has
\* a side effect; the directives are none, r (raw), l (list) and the unknown x.
SegSet ==
  {Lit("p"), Lit(" "), Lit("\""), LBrace, RBrace,
   Field("a", ""), Field("a", "x"), Field("s", "l"),
   Field("n", ""), Field("n", "r"), Field("n", "l"),
   Field("u", ""), Field("c", "")}

Templates == UNION {[1..k -> SegSet] : k \in 0..MaxSegs}

Scope(a, s) == [x \in {"a", "n", "s"} |-> IF x = "a" THEN a ELSE IF x = "n" THEN PyNone ELSE s]

Scope1 ==
  Scope(PyStrVal(<<"x", " ", "$">>), PyList(<<PyStrVal(<<"x", " ", "y">>), PyStrVal(<<>>)>>))

Scope2 == Scope(PyStrVal(<<"'", "{", "0", "}", "\n">>), PyList(<<>>))

Scope3 ==
  Scope(PyInt(7), PyList(<<PyStrVal(<<"{", "0", "}">>), PyInt(7), PyStrVal(<<"$", "\n", "'">>)>>))

\* The calls of the formatting specification: the caller's scope, and whether
\* the fields are evaluated in it (cmd) or passed by keyword (format_cmd).
CallSet ==
  {<<Scope1, "cmd">>, <<Scope2, "cmd">>, <<Scope3, "format_cmd">>, <<Scope1, "format_cmd">>}

\* The templates of the whole-program specification.
ProgramTemplates ==
  {<<Lit("p")>>,
   <<Lit("p"), Lit(" "), Field("a", "")>>,
   <<Field("u", "")>>,
   <<Lit("p"), Field("u", "")>>,
   <<Field("c", ""), Field("u", "")>>,
   <<LBrace, Field("u", "")>>,
   <<Field("u", ""), Field("n", "l")>>,
   <<Field("n", "l"), Field("u", "")>>}

\* ------------------------------------------------------------- the state

VARIABLES
  segs, scope, shell, api, warn_uncalled,    \* the call: template, caller scope, arguments
  pc,                                        \* "start", "recorded", "built", "failed"
  first_result, args, evalLog, counter,      \* the first pass's output and records
  err,                                       \* the exception construction raised
  handle,                                    \* the CmdObject
  procs,                                     \* the CompletedProcess wrappers made so far
  stderr,                                    \* the lines written to stderr, by kind
  lastExc,                                   \* the exception the last operation raised
  calls,                                     \* execution operations started
  spawned                                    \* child processes started

vars ==
  <<segs, scope, shell, api, warn_uncalled, pc, first_result, args, evalLog,
    counter, err, handle, procs, stderr, lastExc, calls, spawned>>

inputs == <<segs, scope, shell, api, warn_uncalled>>

NoHandle ==
  [alive |-> FALSE, deleted |-> FALSE, called |-> FALSE, cmd |-> <<>>,
   shell |-> FALSE, result |-> 0, started |-> FALSE]

InitState ==
  /\ pc = "start"
  /\ first_result = <<>>
  /\ args = <<>>
  /\ evalLog = <<>>
  /\ counter = 0
  /\ err = "none"
  /\ handle = NoHandle
  /\ procs = <<>>
  /\ stderr = [uncalled |-> 0, unchecked |-> 0, verbose |-> 0]
  /\ lastExc = "none"
  /\ calls = 0
  /\ spawned = 0

Init ==
  /\ segs \in ProgramTemplates
  /\ scope = Scope1
  /\ shell \in BOOLEAN
  /\ api = "cmd"
  /\ warn_uncalled \in BOOLEAN
  /\ InitState

InitFormat ==
  /\ segs \in Templates
  /\ \E call \in CallSet : scope = call[1] /\ api = call[2]
  /\ shell \in BOOLEAN
  /\ warn_uncalled = TRUE
  /\ InitState

\* --------------------------------------------------------- construction

\* cmd's command line: the truthy parts joined by a space.
JoinCommand(parts) ==
  Join(SelectSeq(parts, LAMBDA t : t # <<>>), <<" ">>)

RecordPass == [kind |-> "record", api |-> api, scope |-> scope, shell |-> shell, args |-> <<>>]

QuotePass(recorded) ==
  [kind |-> "quote", api |-> api, scope |-> scope, shell |-> shell, args |-> recorded]

\* formatter.format(command, ...): the first pass.
FirstResult(command) == Format(command, RecordPass, NewState(<<>>, <<>>, 0))

\* The second pass over the tokens of shlex.split, one format() call each; the
\* result carries the tokens rendered so far in cmd.
RECURSIVE QuoteTokens(_, _, _, _)
RECURSIVE AfterToken(_, _, _, _)
AfterToken(tokens, recorded, r, done) ==
  IF r.err # "none" THEN [st |-> r, cmd |-> <<>>]
  ELSE QuoteTokens(Tail(tokens), recorded, r, Append(done, r.out))

QuoteTokens(tokens, recorded, st, done) ==
  IF tokens = <<>> THEN [st |-> st, cmd |-> done]
  ELSE AfterToken(tokens, recorded,
                  Format(tokens[1], QuotePass(recorded), NewState(st.args, st.log, st.cnt)),
                  done)

SplitResult(w, recorded, log, cnt) ==
  IF w.err # "none"
    THEN [st |-> Fail(NewState(recorded, log, cnt), w.err), cmd |-> <<>>]
    ELSE QuoteTokens(w.words, recorded, NewState(recorded, log, cnt), <<>>)

ShellResult(r) == [st |-> r, cmd |-> r.out]

\* A second pass that renders the whole line before it splits it into tokens.
SplitLast(r, w) ==
  IF r.err # "none" THEN [st |-> r, cmd |-> <<>>]
  ELSE IF w.err # "none" THEN [st |-> Fail(r, w.err), cmd |-> <<>>]
  ELSE [st |-> r, cmd |-> w.words]

RenderThenSplit(r) == SplitLast(r, ShlexSplit(r.out))

SecondResultSplitLast(first, recorded, log, cnt) ==
  IF shell
    THEN ShellResult(Format(first, QuotePass(recorded), NewState(recorded, log, cnt)))
    ELSE RenderThenSplit(Format(first, QuotePass(recorded), NewState(recorded, log, cnt)))

\* format_cmd after the first pass: the command as CmdObject receives it.
SecondResult(first, recorded, log, cnt) ==
  IF shell
    THEN ShellResult(Format(first, QuotePass(recorded), NewState(recorded, log, cnt)))
    ELSE SplitResult(ShlexSplit(first), recorded, log, cnt)

\* CmdObject.__init__.
NewCmdObject(command, sh, warn) ==
  [alive |-> TRUE, deleted |-> FALSE, called |-> ~warn, cmd |-> command,
   shell |-> sh, result |-> 0, started |-> FALSE]

\* cmd / format_cmd up to the end of the first pass.
FirstPass ==
  /\ pc = "start"
  /\ \E r \in {FirstResult(JoinCommand(<<Flatten(segs)>>))} :
       /\ first_result' = IF r.err = "none" THEN r.out ELSE <<>>
       /\ args' = r.args
       /\ evalLog' = r.log
       /\ counter' = r.cnt
       /\ err' = r.err
       /\ pc' = IF r.err = "none" THEN "recorded" ELSE "failed"
  /\ UNCHANGED <<inputs, handle, procs, stderr, lastExc, calls, spawned>>

\* format_cmd from the second pass to the CmdObject it returns.
SecondPass ==
  /\ pc = "recorded"
  /\ \E r \in {SecondResult(first_result, args, evalLog, counter)} :
       /\ args' = r.st.args
       /\ evalLog' = r.st.log
       /\ counter' = r.st.cnt
       /\ err' = r.st.err
       /\ pc' = IF r.st.err = "none" THEN "built" ELSE "failed"
       /\ handle' = IF r.st.err = "none"
                      THEN NewCmdObject(r.cmd, shell, warn_uncalled) ELSE handle
  /\ UNCHANGED <<inputs, first_result, procs, stderr, lastExc, calls, spawned>>

NextFormat == FirstPass \/ SecondPass

SpecFormat == InitFormat /\ [][NextFormat]_vars

\* ------------------------------------------------------------ CmdObject

\* What the child process does: it exits with a code, or it cannot be started.
Outcomes == {"exit0", "exit1", "oserror"}

ExitCode(outcome) == IF outcome = "exit0" THEN 0 ELSE 1

\* CompletedProcess.__init__, around the result of subprocess.run.  inspected
\* and warned are history: the caller has looked at the exit status, and the
\* destructor has written its warning.
NewCompletedProcess(rc) ==
  [rc |-> rc, checked |-> FALSE, alive |-> TRUE, inspected |-> FALSE, warned |-> FALSE]

\* CmdObject._call: the handle after the call, the wrapper made (made = TRUE),
\* the lines printed, the exception raised and whether a child ran.
CallCmd(h, verbose, check, outcome) ==
  LET h1 == [h EXCEPT !.called = TRUE]
      raised == IF outcome = "oserror" THEN "OSError"
                ELSE IF check /\ ExitCode(outcome) # 0 THEN "CalledProcessError"
                ELSE "none"
  IN
  [h |-> IF raised = "none" THEN [h1 EXCEPT !.result = Len(procs) + 1] ELSE h1,
   made |-> raised = "none",
   proc |-> NewCompletedProcess(ExitCode(outcome)),
   printed |-> IF verbose THEN 1 ELSE 0,
   exc |-> raised,
   ran |-> outcome # "oserror"]

\* The handle is usable once construction has returned it.
Usable == pc = "built" /\ handle.alive /\ calls < MaxCalls

Execute(verbose, check, outcome) ==
  \E r \in {CallCmd(handle, verbose, check, outcome)} :
    /\ handle' = [r.h EXCEPT !.started = TRUE]
    /\ procs' = IF r.made THEN Append(procs, r.proc) ELSE procs
    /\ stderr' = [stderr EXCEPT !.verbose = @ + r.printed]
    /\ lastExc' = r.exc
    /\ calls' = calls + 1
    /\ spawned' = spawned + (IF r.ran THEN 1 ELSE 0)
    /\ UNCHANGED <<inputs, pc, first_result, args, evalLog, counter, err>>

\* CmdObject.run(verbose=...).
Run ==
  /\ Usable
  /\ \E verbose \in BOOLEAN, outcome \in Outcomes : Execute(verbose, FALSE, outcome)

\* CmdObject.call(check=...).
Call ==
  /\ Usable
  /\ \E check \in BOOLEAN, outcome \in Outcomes : Execute(FALSE, check, outcome)

\* CmdObject.read(): a checked call, then the result's stdout, which is not
\* the exit status.
Read ==
  /\ Usable
  /\ \E outcome \in Outcomes : Execute(FALSE, TRUE, outcome)

\* A popen that does not mark the handle.
PopenCmdUnmarked(h) == h

\* CmdObject.popen.
PopenCmd(h) == [h EXCEPT !.called = TRUE]

Popen ==
  /\ Usable
  /\ \E outcome \in {"started", "oserror"} :
       /\ handle' = [PopenCmd(handle) EXCEPT !.started = TRUE]
       /\ lastExc' = IF outcome = "oserror" THEN "OSError" ELSE "none"
       /\ spawned' = spawned + (IF outcome = "started" THEN 1 ELSE 0)
  /\ calls' = calls + 1
  /\ UNCHANGED <<inputs, pc, first_result, args, evalLog, counter, err, procs, stderr>>

\* CmdObject.__del__: 1 when the warning is written.
UncalledWarning(h) == IF ~h.called THEN 1 ELSE 0

DelCmd ==
  /\ pc = "built"
  /\ handle.alive
  /\ handle' = [handle EXCEPT !.alive = FALSE, !.deleted = TRUE]
  /\ stderr' = [stderr EXCEPT !.uncalled = @ + UncalledWarning(handle)]
  /\ lastExc' = "none"
  /\ UNCHANGED <<inputs, pc, first_result, args, evalLog, counter, err, procs, calls, spawned>>

\* ------------------------------------------------------ CompletedProcess

\* CompletedProcess.check_returncode.
CheckReturncode(p) ==
  [p |-> [p EXCEPT !.checked = TRUE],
   exc |-> IF p.rc # 0 THEN "CalledProcessError" ELSE "none"]

\* An attribute read that marks nothing.
GetAttrUnmarked(p, name) == [p |-> p, exc |-> "none"]

\* CompletedProcess.__getattr__.
GetAttr(p, name) ==
  [p |-> IF name = "returncode" THEN [p EXCEPT !.checked = TRUE] ELSE p,
   exc |-> "none"]

\* CompletedProcess.__bool__.
Bool(p) ==
  LET r == CheckReturncode(p) IN
  [p |-> r.p, val |-> r.exc = "none",
   exc |-> IF r.exc = "CalledProcessError" THEN "none" ELSE r.exc]

\* CompletedProcess.__del__.
DelProcess(p) ==
  IF ~p.checked
    THEN LET b == Bool(p) IN [p |-> b.p, warn |-> ~b.val, exc |-> b.exc]
    ELSE [p |-> p, warn |-> FALSE, exc |-> "none"]

Live(i) == i \in 1..Len(procs) /\ procs[i].alive

\* The caller reads an attribute of a result.
ReadAttr ==
  \E i \in 1..Len(procs), name \in {"returncode", "stdout"} :
    /\ Live(i)
    /\ \E r \in {GetAttr(procs[i], name)} :
         /\ procs' = [procs EXCEPT ![i] =
                        [r.p EXCEPT !.inspected = @ \/ name = "returncode"]]
         /\ lastExc' = r.exc
    /\ UNCHANGED <<inputs, pc, first_result, args, evalLog, counter, err, handle,
                   stderr, calls, spawned>>

\* The caller calls check_returncode on a result.
CheckResult ==
  \E i \in 1..Len(procs) :
    /\ Live(i)
    /\ \E r \in {CheckReturncode(procs[i])} :
         /\ procs' = [procs EXCEPT ![i] = [r.p EXCEPT !.inspected = TRUE]]
         /\ lastExc' = r.exc
    /\ UNCHANGED <<inputs, pc, first_result, args, evalLog, counter, err, handle,
                   stderr, calls, spawned>>

\* The caller tests the truth value of a result.
TestResult ==
  \E i \in 1..Len(procs) :
    /\ Live(i)
    /\ \E r \in {Bool(procs[i])} :
         /\ procs' = [procs EXCEPT ![i] = [r.p EXCEPT !.inspected = TRUE]]
         /\ lastExc' = r.exc
    /\ UNCHANGED <<inputs, pc, first_result, args, evalLog, counter, err, handle,
                   stderr, calls, spawned>>

\* A result is destroyed once nothing refers to it: not while it is the live
\* handle's result.
DelResult ==
  \E i \in 1..Len(procs) :
    /\ Live(i)
    /\ ~(handle.alive /\ handle.result = i)
    /\ \E r \in {DelProcess(procs[i])} :
         /\ procs' = [procs EXCEPT ![i] =
                        [r.p EXCEPT !.alive = FALSE, !.warned = r.warn]]
         /\ stderr' = [stderr EXCEPT !.unchecked = @ + (IF r.warn THEN 1 ELSE 0)]
         /\ lastExc' = r.exc
    /\ UNCHANGED <<inputs, pc, first_result, args, evalLog, counter, err, handle,
                   calls, spawned>>

Next ==
  \/ FirstPass
  \/ SecondPass
  \/ Run
  \/ Call
  \/ Read
  \/ Popen
  \/ DelCmd
  \/ ReadAttr
  \/ CheckResult
  \/ TestResult
  \/ DelResult

Spec == Init /\ [][Next]_vars

\* ------------------------------------------------- what the claims speak of

\* Construction has ended: a CmdObject was returned, or an exception raised.
Final == pc \in {"built", "failed"}

OnlySegs(kinds) == \A i \in 1..Len(segs) : segs[i] \in kinds

FieldIndexes(gs) == {i \in 1..Len(gs) : gs[i].k = "field"}

\* The field occurrences of a template, left to right.
FieldsOf(gs) == SelectSeq(gs, LAMBDA g : g.k = "field")

\* The value the k-th field occurrence of the template resolves to: the
\* scope's binding, and for the expression with a side effect the number of
\* its evaluations so far (cmd) or the value the caller passed (format_cmd).
ValueOf(gs, k) ==
  LET f == FieldsOf(gs) IN
  IF f[k].name = SideEffectExpr
    THEN (IF api = "cmd"
            THEN PyInt(Cardinality({j \in 1..k : f[j].name = SideEffectExpr}))
            ELSE PyInt(1))
    ELSE scope[f[k].name]

ValuesOf(gs) == [k \in 1..Len(FieldsOf(gs)) |-> ValueOf(gs, k)]

\* The template's text with every field replaced by one opaque character.
Mark == "@"

RECURSIVE Opaque(_)
Opaque(gs) ==
  IF gs = <<>> THEN <<>>
  ELSE (CASE gs[1].k = "lit" -> <<gs[1].c>>
          [] gs[1].k = "lbrace" -> <<"{">>
          [] gs[1].k = "rbrace" -> <<"}">>
          [] OTHER -> <<Mark>>)
       \o Opaque(Tail(gs))

\* The text cs with its marks replaced, left to right, by the texts of vals.
RECURSIVE Subst(_, _)
Subst(cs, vals) ==
  IF cs = <<>> THEN <<>>
  ELSE IF cs[1] = Mark THEN Head(vals) \o Subst(Tail(cs), Tail(vals))
  ELSE <<cs[1]>> \o Subst(Tail(cs), vals)

Marks(cs) == Cardinality({i \in 1..Len(cs) : cs[i] = Mark})

RECURSIVE SubstWords(_, _)
SubstWords(ws, vals) ==
  IF ws = <<>> THEN <<>>
  ELSE <<Subst(ws[1], vals)>>
       \o SubstWords(Tail(ws), SubSeq(vals, Marks(ws[1]) + 1, Len(vals)))

\* The field at position i of the template stands outside its double quotes.
Unquoted(gs, i) == Cardinality({j \in 1..(i - 1) : gs[j] = Lit("\"")}) % 2 = 0

\* str() of every value the template's fields resolve to.
StrValues == [k \in 1..Len(FieldsOf(segs)) |-> PyStr(ValueOf(segs, k))]

\* The words a reader makes of the template with its fields opaque, each field
\* then replaced by the text of vals: the arguments a command whose fields are
\* never split or parsed again has.
ArgsOf(w, vals) ==
  IF w.err # "none" THEN w ELSE [err |-> "none", words |-> SubstWords(w.words, vals)]

\* ---------------------------------------------------------------- C1

\* C1: every doubled brace of the template reaches the command as one literal
\* brace: a template of literal text and doubled braces is built without error,
\* and its command is the template's text with single braces (its words, in
\* vector mode).
C1_DoubledBracesLiteral ==
  (Final /\ OnlySegs({Lit("p"), Lit(" "), LBrace, RBrace}))
    => /\ pc = "built"
       /\ handle.cmd = IF shell THEN Opaque(segs) ELSE ShlexSplit(Opaque(segs)).words

\* ---------------------------------------------------------------- C2

ScalarSegs == {Lit("p"), Lit(" "), Lit("\""), Field("a", ""), Field("c", "")}

\* C2 as stated: in shell mode, whatever scalar a field with no directive
\* resolves to, None included, and wherever the field stands, the shell's
\* word-splitting of the command gives the template's words with str(v) for
\* the field.
C2_ShellAnyScalar ==
  (shell /\ pc = "built" /\ OnlySegs(ScalarSegs \cup {Field("n", "")}))
    => ShellWords(handle.cmd) = ArgsOf(ShellWords(Opaque(segs)), StrValues)

\* C2, amended: in shell mode, for a field with no directive that resolves to a
\* scalar other than None and stands outside the template's quotes, the shell's
\* word-splitting of the command gives the template's words with str(v) in
\* place of the field: one argument, with the field's word around it, whatever
\* v contains.
C2_ShellScalarOneArgument ==
  (shell /\ pc = "built" /\ OnlySegs(ScalarSegs)
     /\ \A i \in FieldIndexes(segs) : Unquoted(segs, i))
    => ShellWords(handle.cmd) = ArgsOf(ShellWords(Opaque(segs)), StrValues)

\* A shell command of a literal word and a field whose value holds a quote,
\* brace text and a newline.
C2_Witness ==
  /\ shell /\ pc = "built" /\ scope = Scope2
  /\ segs = <<Lit("p"), Lit(" "), Field("a", "")>>
  /\ ShellWords(handle.cmd).words = <<<<"p">>, <<"'", "{", "0", "}", "\n">>>>

\* ---------------------------------------------------------------- C3

\* C3: in vector mode, for fields with no directive that resolve to scalars
\* other than None, the command is the template's words (fields opaque) with
\* str(v) in place of each field: as many tokens as the template has words,
\* no value split or parsed again; construction fails only when the template
\* itself does not split into words.
C3_VectorScalarOneToken ==
  (~shell /\ Final /\ OnlySegs(ScalarSegs))
    => \E e \in {ArgsOf(ShlexSplit(Opaque(segs)), StrValues)} :
         IF e.err # "none" THEN pc = "failed" /\ err = e.err
         ELSE pc = "built" /\ handle.cmd = e.words

\* A vector command whose field stands inside a quoted word and holds
\* whitespace: one token for the whole word.
C3_Witness ==
  /\ ~shell /\ pc = "built" /\ scope = Scope1
  /\ segs = <<Lit("\""), Field("a", ""), Lit("\"")>>
  /\ handle.cmd = <<<<"x", " ", "$">>>>

\* ---------------------------------------------------------------- C4

ListSegs == {Lit("p"), Lit(" "), Field("s", "l")}

\* The field at position i of the template is a word of its own.
OwnWord(gs, i) ==
  /\ i = 1 \/ gs[i - 1] = Lit(" ")
  /\ i = Len(gs) \/ gs[i + 1] = Lit(" ")

\* str() of the elements of a sequence, in order.
ElementTexts(value) == [i \in 1..PyLen(value) |-> PyStr(PyItem(value, i - 1))]

\* The words of a template, each word that is a field replaced by the texts of
\* the elements of s.
RECURSIVE ExpandWords(_)
ExpandWords(ws) ==
  IF ws = <<>> THEN <<>>
  ELSE (IF ws[1] = <<Mark>> THEN ElementTexts(scope["s"]) ELSE <<ws[1]>>)
       \o ExpandWords(Tail(ws))

\* C4: in vector mode, from cmd and from format_cmd alike, a list field that
\* is a word of its own gives len(s) tokens, in order, the i-th the text of
\* the i-th element, between the template's other words.
C4_ListFieldTokens ==
  (~shell /\ Final /\ OnlySegs(ListSegs)
     /\ \A i \in FieldIndexes(segs) : OwnWord(segs, i))
    => /\ pc = "built"
       /\ handle.cmd = ExpandWords(ShlexSplit(Opaque(segs)).words)

\* A word and a list of three elements, one of brace text, one of shell
\* characters: four tokens.
C4_Witness ==
  /\ ~shell /\ pc = "built" /\ scope = Scope3
  /\ segs = <<Lit("p"), Lit(" "), Field("s", "l")>>
  /\ handle.cmd = <<<<"p">>, <<"{", "0", "}">>, <<"7">>, <<"$", "\n", "'">>>>

\* ---------------------------------------------------------------- C5

NoneSegs == {Lit("p"), Lit(" "), Field("n", ""), Field("n", "r")}

EmptyTexts == [k \in 1..Len(segs) |-> <<>>]

\* The template without its raw fields.
WithoutRaw(gs) == SelectSeq(gs, LAMBDA g : g.k # "field" \/ g.spec # "r")

\* C5: a field that resolves to None is rendered as the empty text.  In vector
\* mode the command is the template's words with nothing in place of the field;
\* in shell mode the shell makes the same words of the command, a field with no
\* directive being an empty argument and a raw field no text at all.  The text
\* None never appears.  Under the list directive None is rejected: construction
\* fails and returns no handle.
C5_NoneIsEmpty ==
  /\ (Final /\ OnlySegs(NoneSegs))
       => /\ pc = "built"
          /\ IF shell
               THEN ShellWords(handle.cmd)
                      = ArgsOf(ShlexSplit(Opaque(WithoutRaw(segs))), EmptyTexts)
               ELSE handle.cmd = SubstWords(ShlexSplit(Opaque(segs)).words, EmptyTexts)
  /\ (Final /\ \E i \in 1..Len(segs) : segs[i] = Field("n", "l"))
       => pc = "failed" /\ handle = NoHandle

\* A shell command whose last word is a None field: an empty second argument.
C5_Witness ==
  /\ shell /\ pc = "built"
  /\ segs = <<Lit("p"), Lit(" "), Field("n", "")>>
  /\ ShellWords(handle.cmd).words = <<<<"p">>, <<>>>>

\* ---------------------------------------------------------------- C6

HasUnknownDirective == \E i \in 1..Len(segs) : segs[i] = Field("a", "x")

AsDefault(gs) ==
  [i \in 1..Len(gs) |-> IF gs[i] = Field("a", "x") THEN Field("a", "") ELSE gs[i]]

\* cmd / format_cmd as a whole: what a call with template gs ends in.
Built(q) ==
  IF q.st.err # "none" THEN [pc |-> "failed", err |-> q.st.err, cmd |-> <<>>]
  ELSE [pc |-> "built", err |-> "none", cmd |-> q.cmd]

Recorded(r) ==
  IF r.err # "none" THEN [pc |-> "failed", err |-> r.err, cmd |-> <<>>]
  ELSE Built(SecondResult(r.out, r.args, r.log, r.cnt))

Build(gs) == Recorded(FirstResult(JoinCommand(<<Flatten(gs)>>)))

FieldNames(gs) == [k \in 1..Len(FieldsOf(gs)) |-> <<FieldsOf(gs)[k].name>>]

IsPrefix(p, q) == Len(p) <= Len(q) /\ p = SubSeq(q, 1, Len(p))

\* C8: in cmd, once the first pass has ended the evaluator has been called
\* once for every field occurrence, left to right, an expression with a side
\* effect as often as it occurs, and the recorded values are the values of the
\* occurrences in that order; the second pass adds no call; a construction that
\* fails has evaluated a prefix of the fields; and the i-th field of the
\* command is the text of the i-th recorded value.
C8_EvaluationOrder ==
  api = "cmd" =>
    /\ pc \in {"recorded", "built"}
         => /\ evalLog = FieldNames(segs)
            /\ args = ValuesOf(segs)
            /\ counter = Cardinality({i \in FieldIndexes(segs) : segs[i].name = SideEffectExpr})
    /\ pc = "failed" => IsPrefix(evalLog, FieldNames(segs))
    /\ (pc = "built" /\ ~shell /\ OnlySegs(ScalarSegs))
         => handle.cmd = SubstWords(ShlexSplit(Opaque(segs)).words,
                                    [k \in 1..Len(args) |-> PyStr(args[k])])

\* The expression with a side effect twice, a name between: three calls, the
\* values 1 and 2 recorded around the name's and rendered in that order.
C8_Witness ==
  /\ api = "cmd" /\ ~shell /\ pc = "built" /\ scope = Scope1
  /\ segs = <<Field("c", ""), Field("a", ""), Field("c", "")>>
  /\ evalLog = <<<<"c">>, <<"a">>, <<"c">>>>
  /\ args = <<PyInt(1), scope["a"], PyInt(2)>>
  /\ handle.cmd = <<<<"1", "x", " ", "$", "2">>>>

\* ---------------------------------------------------------------- C7

UndefinedAt(gs) == {i \in FieldIndexes(gs) : gs[i].name = "u"}

FirstUndefined(gs) == CHOOSE i \in UndefinedAt(gs) : \A j \in UndefinedAt(gs) : i <= j

\* No handle is returned and nothing is executed.
NothingBuilt == pc # "built" /\ handle = NoHandle /\ procs = <<>> /\ spawned = 0

\* C7 as stated: a template passed to cmd with a field that names nothing in
\* the caller's scope fails with a name error; no handle, no process.
C7_UndefinedNameError ==
  (api = "cmd" /\ UndefinedAt(segs) # {})
    => NothingBuilt /\ (pc = "failed" => err = "NameError")

\* What the first pass makes of the template up to its first undefined name.
BeforeUndefined(gs) ==
  FirstResult(JoinCommand(<<Flatten(SubSeq(gs, 1, FirstUndefined(gs) - 1))>>))

\* C7, amended: a template passed to cmd with a field that names nothing in
\* the caller's scope fails during construction, with no handle returned and no
\* process spawned; the exception is the name error unless the template fails
\* before the field is reached, and then it is that earlier exception.
C7_UndefinedNameFails ==
  (api = "cmd" /\ UndefinedAt(segs) # {})
    => /\ NothingBuilt
       /\ pc = "failed"
            => err = IF BeforeUndefined(segs).err # "none"
                       THEN BeforeUndefined(segs).err ELSE "NameError"

\* cmd has failed with the name error after a field before the name was
\* evaluated.
C7_Witness ==
  /\ api = "cmd" /\ pc = "failed" /\ err = "NameError"
  /\ segs = <<Field("c", ""), Field("u", "")>>
  /\ evalLog = <<<<"c">>, <<"u">>>>
  /\ handle = NoHandle /\ spawned = 0

\* ---------------------------------------------------------------- C9

\* C9: a handle on which an execution operation was started is marked called,
\* whatever became of the execution, and stays so; no operation changes its
\* command or its mode; and once it is destroyed the uncalled warning has been
\* written exactly when it was created with warnings enabled and no operation
\* was ever started on it.
C9_HandleInvoked ==
  /\ [](handle.started => handle.called)
  /\ [][handle.called => handle'.called]_vars
  /\ [][pc = "built" => handle'.cmd = handle.cmd /\ handle'.shell = handle.shell]_vars
  /\ [](stderr.uncalled = IF handle.deleted /\ warn_uncalled /\ ~handle.started
                            THEN 1 ELSE 0)

\* A handle created with warnings enabled, on which an operation was started
\* that spawned nothing, destroyed without the warning.
C9_Witness ==
  /\ handle.deleted /\ warn_uncalled /\ handle.started
  /\ spawned = 0 /\ stderr.uncalled = 0

\* ---------------------------------------------------------------- C10

Results == 1..Len(procs)

\* C10: a result is marked checked exactly when its returncode was read,
\* check_returncode was called or its truth value was tested, and stays so;
\* once it is destroyed the unchecked-failure warning has been written exactly
\* when its exit code is not zero and it was never inspected; and its
\* destruction raises nothing.
C10_ResultInspected ==
  /\ [](\A i \in Results : procs[i].alive => (procs[i].checked <=> procs[i].inspected))
  /\ [][\A i \in Results : procs[i].checked => procs'[i].checked]_vars
  /\ [](\A i \in Results :
          procs[i].warned <=> (~procs[i].alive /\ procs[i].rc # 0 /\ ~procs[i].inspected))
  /\ [][(\E i \in Results : procs[i].alive /\ ~procs'[i].alive) => lastExc' = "none"]_vars

\* A result with a non-zero exit code whose returncode was read, destroyed
\* without the warning, beside one destroyed with it.
C10_Witness ==
  \E i, j \in Results :
    /\ ~procs[i].alive /\ procs[i].rc # 0 /\ procs[i].inspected /\ ~procs[i].warned
    /\ ~procs[j].alive /\ procs[j].rc # 0 /\ ~procs[j].inspected /\ procs[j].warned
    /\ stderr.unchecked = 1

====
